---- MODULE Spec2Model ----
(***************************************************************************)
(* Feature scoring (ema_workbench/analysis/feature_scoring.py).             *)
(*                                                                         *)
(* The module is Python 2 code: an experiment design (a numpy structured    *)
(* array) is turned into a float matrix, an outcome specification is        *)
(* resolved to a target vector and a mode flag, and three scorers hand      *)
(* both to a scikit-learn engine and sort the (name, score) pairs.          *)
(*                                                                         *)
(* Python values are records [t, n, s]: t is the runtime type, n the value  *)
(* of a number, s the characters (code points) of a string.  The engines    *)
(* of scikit-learn are an input of a call: EnginesOn(x) is the set of the    *)
(* functions from a column of x to a score, and a call draws one.           *)
(***************************************************************************)
EXTENDS Integers, Sequences, FiniteSets

VARIABLES experiments, outcomes, classify, ret

vars == <<experiments, outcomes, classify, ret>>

\* ------------------------------------------------------------- bounds
NRows == 3
MaxCols == 3
MaxScore == 1

\* ------------------------------------------------------ Python values
Num(k) == [t |-> "num", n |-> k, s |-> <<>>]
Str(cs) == [t |-> "str", n |-> 0, s |-> cs]
\* a hashable object that is no number, no string and no sequence (a frozenset)
Obj == [t |-> "obj", n |-> 0, s |-> <<>>]

\* "high", "low", "mid" and "7" as code points
High == <<104, 105, 103, 104>>
Low == <<108, 111, 119>>
Mid == <<109, 105, 100>>
Seven == <<55>>

Values == {Num(2), Str(High), Str(Low), Str(Mid), Str(Seven), Obj}

Min(S) == CHOOSE m \in S : \A o \in S : m <= o

\* str < str of Python 2: lexicographic on the code points
RECURSIVE StrLt(_, _)
StrLt(a, b) ==
    IF b = <<>> THEN FALSE
    ELSE IF a = <<>> THEN TRUE
    ELSE IF Head(a) # Head(b) THEN Head(a) < Head(b)
    ELSE StrLt(Tail(a), Tail(b))

\* the order of Python 2 on objects of mixed type: the numbers, then the other
\* types by type name ('frozenset' < 'str')
TypeRank(v) == CASE v.t = "num" -> 1 [] v.t = "obj" -> 2 [] OTHER -> 3

PyLt(a, b) ==
    IF TypeRank(a) # TypeRank(b) THEN TypeRank(a) < TypeRank(b)
    ELSE IF a.t = "num" THEN a.n < b.n
    ELSE IF a.t = "str" THEN StrLt(a.s, b.s)
    ELSE FALSE

\* the distinct values in order of first appearance
RECURSIVE FirstSeen(_, _)
FirstSeen(data, acc) ==
    IF data = <<>> THEN acc
    ELSE IF \E j \in 1..Len(acc) : acc[j] = Head(data)
         THEN FirstSeen(Tail(data), acc)
         ELSE FirstSeen(Tail(data), Append(acc, Head(data)))

\* sorted(list(set(data)))
RECURSIVE SortedSet(_)
SortedSet(S) ==
    IF S = {} THEN <<>>
    ELSE LET m == CHOOSE e \in S : \A o \in S \ {e} : PyLt(e, o)
         IN <<m>> \o SortedSet(S \ {m})

Entries(data) == SortedSet({data[r] : r \in 1..Len(data)})

\* float(v) on one element of a column
IsDigit(c) == c >= 48 /\ c <= 57

RECURSIVE ParseDigits(_, _)
ParseDigits(cs, acc) ==
    IF cs = <<>> THEN acc
    ELSE ParseDigits(Tail(cs), 10 * acc + (Head(cs) - 48))

Cast(v) ==
    CASE v.t = "num" -> [err |-> "ok", f |-> v.n]
      [] v.t = "str" ->
            IF v.s # <<>> /\ \A j \in 1..Len(v.s) : IsDigit(v.s[j])
            THEN [err |-> "ok", f |-> ParseDigits(v.s, 0)]
            ELSE [err |-> "ValueError", f |-> 0]
      [] OTHER -> [err |-> "TypeError", f |-> 0]

\* experiments[u].astype(np.float): element by element, the first element
\* that does not convert raises
AsTypeFloat(data) ==
    LET bad == {r \in 1..Len(data) : Cast(data[r]).err # "ok"}
    IN IF bad = {}
       THEN [err |-> "ok", col |-> [r \in 1..Len(data) |-> Cast(data[r]).f]]
       ELSE [err |-> Cast(data[Min(bad)]).err, col |-> <<>>]

\* the except branch: temp_experiments[data==entry, i] = j
CodesFirstSeen(data) ==
    LET entries == FirstSeen(data, <<>>)
    IN [r \in 1..Len(data) |->
           (CHOOSE j \in 1..Len(entries) : entries[j] = data[r]) - 1]

CategoricalCodes(data) ==
    LET entries == Entries(data)
    IN [r \in 1..Len(data) |->
           (CHOOSE j \in 1..Len(entries) : entries[j] = data[r]) - 1]

\* one pass of the loop over the columns: try / except ValueError
EncodeColumn(data) ==
    LET c == AsTypeFloat(data)
    IN CASE c.err = "ok" -> [err |-> "ok", col |-> c.col]
         [] c.err = "ValueError" -> [err |-> "ok", col |-> CategoricalCodes(data)]
         [] OTHER -> [err |-> c.err, col |-> <<>>]

\* recfunctions.get_names(experiments.dtype)
GetNames(exps) == [i \in 1..Len(exps) |-> exps[i].name]

\* _prepare_experiments: the matrix as the sequence of its columns
PrepareExperiments(exps) ==
    LET uncs == GetNames(exps)
        enc == [i \in 1..Len(uncs) |->
                   EncodeColumn((CHOOSE c \in {exps[j] : j \in 1..Len(exps)} :
                                    c.name = uncs[i]).data)]
        bad == {i \in 1..Len(uncs) : enc[i].err # "ok"}
    IN IF bad = {}
       THEN [err |-> "ok", x |-> [i \in 1..Len(uncs) |-> enc[i].col]]
       ELSE [err |-> enc[Min(bad)].err, x |-> <<>>]

\* ------------------------------------------------------------ outcomes
\* _prepare_outcomes: classify is a str (StringType), a unicode, a callable
\* or anything else (42)
CallClassify(cls, outs) ==
    [r \in 1..Len(outs["Y"]) |-> IF outs["Y"][r] > 1 THEN 1 ELSE 0]

PrepareOutcomesInverted(outs, cls) ==
    IF cls.kind = "str"
    THEN IF cls.name \in DOMAIN outs
         THEN [err |-> "ok", y |-> outs[cls.name], categorical |-> TRUE]
         ELSE [err |-> "KeyError", y |-> <<>>, categorical |-> FALSE]
    ELSE IF cls.kind = "callable"
    THEN [err |-> "ok", y |-> CallClassify(cls, outs), categorical |-> FALSE]
    ELSE [err |-> "TypeError", y |-> <<>>, categorical |-> FALSE]

PrepareOutcomes(outs, cls) ==
    IF cls.kind = "str"
    THEN IF cls.name \in DOMAIN outs
         THEN [err |-> "ok", y |-> outs[cls.name], categorical |-> FALSE]
         ELSE [err |-> "KeyError", y |-> <<>>, categorical |-> FALSE]
    ELSE IF cls.kind = "callable"
    THEN [err |-> "ok", y |-> CallClassify(cls, outs), categorical |-> TRUE]
    ELSE [err |-> "TypeError", y |-> <<>>, categorical |-> FALSE]

\* ------------------------------------------------------------- ranking
\* zip(uncs, scores)
ZipMisaligned(uncs, scores) ==
    [i \in 1..(IF Len(uncs) < Len(scores) THEN Len(uncs) ELSE Len(scores)) |->
        <<uncs[Len(uncs) + 1 - i], scores[i]>>]

Zip(uncs, scores) ==
    [i \in 1..(IF Len(uncs) < Len(scores) THEN Len(uncs) ELSE Len(scores)) |->
        <<uncs[i], scores[i]>>]

Reverse(sq) == [i \in 1..Len(sq) |-> sq[Len(sq) + 1 - i]]

\* list.sort(key=itemgetter(1), reverse=...): stable in both directions, an
\* element goes behind the elements that do not have to follow it
InsertPair(sorted, p, reverse) ==
    LET c == Cardinality({j \in 1..Len(sorted) :
                 IF reverse THEN sorted[j][2] >= p[2] ELSE sorted[j][2] <= p[2]})
    IN SubSeq(sorted, 1, c) \o <<p>> \o SubSeq(sorted, c + 1, Len(sorted))

RECURSIVE InsertionSort(_, _, _)
InsertionSort(pairs, acc, reverse) ==
    IF pairs = <<>> THEN acc
    ELSE InsertionSort(Tail(pairs), InsertPair(acc, Head(pairs), reverse), reverse)

SortAscendingOnly(pairs, reverse) == InsertionSort(pairs, <<>>, FALSE)

SortThenReverse(pairs, reverse) ==
    IF reverse THEN Reverse(InsertionSort(pairs, <<>>, FALSE))
    ELSE InsertionSort(pairs, <<>>, FALSE)

SortByScore(pairs, reverse) == InsertionSort(pairs, <<>>, reverse)

\* the engine's answer for the columns of x
Scores(engine, x) == [i \in 1..Len(x) |-> engine[x[i]]]

\* ------------------------------------------------------- configuration
\* the keyword arguments of get_rf_feature_scores besides criterion (-1: None)
RfDefaults ==
    [nr_trees |-> 250, max_features |-> "auto", max_depth |-> -1,
     min_samples_split |-> 2, min_samples_leaf |-> 1, bootstrap |-> TRUE,
     oob_score |-> TRUE, random_state |-> -1]

RfConfigs ==
    {RfDefaults,
     [nr_trees |-> 10, max_features |-> "sqrt", max_depth |-> 3,
      min_samples_split |-> 4, min_samples_leaf |-> 2, bootstrap |-> FALSE,
      oob_score |-> FALSE, random_state |-> 1]}

Criteria == {"gini", "entropy"}

\* the keyword arguments of get_lasso_feature_scores, fractions in hundredths
LassoDefaults ==
    [scaling |-> 50, sample_fraction |-> 75, n_resampling |-> 200,
     random_state |-> -1]

LassoConfigs ==
    {LassoDefaults,
     [scaling |-> 30, sample_fraction |-> 50, n_resampling |-> 10,
      random_state |-> 1]}

ScoreFuncNames == {"f_classification", "chi2", "anova"}

NoModel == [learner |-> "", criterion |-> "", cfg |-> RfDefaults,
            fitted |-> FALSE, importances |-> <<>>]

Raise(err, by, calls) ==
    [status |-> err, raisedBy |-> by, ranking |-> <<>>, y |-> <<>>,
     categorical |-> FALSE, test |-> "", model |-> NoModel, log |-> calls]

\* ---------------------------------------------------------- univariate
\* the dict score_funcs
score_funcs ==
    [k \in {"f_regression", "f_classification", "chi2"} |->
        CASE k = "f_regression" -> "f_regression"
          [] k = "f_classification" -> "f_classif"
          [] OTHER -> "chi2"]

\* if categorical: score_func = score_funcs[score_func] else: f_regression
SelectAlwaysLookup(categorical, score_func) ==
    IF score_func \in DOMAIN score_funcs
    THEN [err |-> "ok", test |-> score_funcs[score_func]]
    ELSE [err |-> "KeyError", test |-> ""]

SelectScoreFunc(categorical, score_func) ==
    IF categorical
    THEN IF score_func \in DOMAIN score_funcs
         THEN [err |-> "ok", test |-> score_funcs[score_func]]
         ELSE [err |-> "KeyError", test |-> ""]
    ELSE [err |-> "ok", test |-> "f_regression"]

get_univariate_feature_scores(exps, outs, cls, score_func, engine) ==
    LET uncs == GetNames(exps)
        px == PrepareExperiments(exps)
        po == PrepareOutcomes(outs, cls)
        sel == SelectScoreFunc(po.categorical, score_func)
    IN IF px.err # "ok" THEN Raise(px.err, "_prepare_experiments", <<>>)
       ELSE IF po.err # "ok" THEN Raise(po.err, "_prepare_outcomes", <<>>)
       ELSE IF sel.err # "ok" THEN Raise(sel.err, "score_funcs", <<>>)
       ELSE [status |-> "ok", raisedBy |-> "",
             ranking |-> SortByScore(Zip(uncs, Scores(engine, px.x)), FALSE),
             y |-> po.y, categorical |-> po.categorical, test |-> sel.test,
             model |-> NoModel, log |-> <<[op |-> sel.test, arg |-> <<>>]>>]

\* -------------------------------------------------------------- forest
\* if categorical: RandomForestClassifier else: RandomForestRegressor, 'mse'
ResolveKeepCriterion(categorical, criterion) ==
    IF categorical
    THEN [learner |-> "RandomForestClassifier", criterion |-> criterion]
    ELSE [learner |-> "RandomForestRegressor", criterion |-> criterion]

ResolveForest(categorical, criterion) ==
    IF categorical
    THEN [learner |-> "RandomForestClassifier", criterion |-> criterion]
    ELSE [learner |-> "RandomForestRegressor", criterion |-> "mse"]

get_rf_feature_scores(exps, outs, cls, criterion, cfg, engine) ==
    LET uncs == GetNames(exps)
        px == PrepareExperiments(exps)
        po == PrepareOutcomes(outs, cls)
        rfc == ResolveForest(po.categorical, criterion)
        forest == [learner |-> rfc.learner, criterion |-> rfc.criterion,
                   cfg |-> cfg, fitted |-> TRUE,
                   importances |-> Scores(engine, px.x)]
    IN IF px.err # "ok" THEN Raise(px.err, "_prepare_experiments", <<>>)
       ELSE IF po.err # "ok" THEN Raise(po.err, "_prepare_outcomes", <<>>)
       ELSE [status |-> "ok", raisedBy |-> "",
             ranking |-> SortByScore(Zip(uncs, forest.importances), TRUE),
             y |-> po.y, categorical |-> po.categorical, test |-> "",
             model |-> forest,
             log |-> <<[op |-> rfc.learner, arg |-> <<>>]>>]

\* ----------------------------------------------------------- stability
CvFolds == 6
NAlphas == 6

\* np.linspace(start, stop, num), penalties in fixed point
Linspace(start, stop, num) ==
    [i \in 1..num |-> start + ((i - 1) * (stop - start)) \div (num - 1)]

\* np.linspace(lars_cv.alphas_[0], .1 * lars_cv.alphas_[0], 6)
PenaltyGridShort(alpha0) == Linspace(alpha0, alpha0 \div 10, NAlphas - 1)

PenaltyGrid(alpha0) == Linspace(alpha0, alpha0 \div 10, NAlphas)

\* the engine calls of the two branches, in the order they are made; cal is
\* what LassoLarsCV(cv=6).fit does with (x, y): it raises, or it finds
\* alphas_[0]
LassoCalls(categorical, cfg, cal) ==
    IF categorical
    THEN [err |-> "ok",
          calls |-> <<[op |-> "RandomizedLogisticRegression.fit",
                       alpha |-> <<>>, cfg |-> cfg]>>]
    ELSE IF ~cal.ok
    THEN [err |-> "ComputationError",
          calls |-> <<[op |-> "LassoLarsCV.fit", cv |-> CvFolds]>>]
    ELSE [err |-> "ok",
          calls |-> <<[op |-> "LassoLarsCV.fit", cv |-> CvFolds],
                      [op |-> "RandomizedLasso.fit",
                       alpha |-> PenaltyGrid(cal.alpha0), cfg |-> cfg]>>]

get_lasso_feature_scores(exps, outs, cls, cfg, cal, engine) ==
    LET uncs == GetNames(exps)
        px == PrepareExperiments(exps)
        po == PrepareOutcomes(outs, cls)
        lfs == LassoCalls(po.categorical, cfg, cal)
    IN IF px.err # "ok" THEN Raise(px.err, "_prepare_experiments", <<>>)
       ELSE IF po.err # "ok" THEN Raise(po.err, "_prepare_outcomes", <<>>)
       ELSE IF lfs.err # "ok" THEN Raise(lfs.err, "LassoLarsCV.fit", lfs.calls)
       ELSE [status |-> "ok", raisedBy |-> "",
             ranking |-> SortByScore(Zip(uncs, Scores(engine, px.x)), TRUE),
             y |-> po.y, categorical |-> po.categorical, test |-> "",
             model |-> NoModel, log |-> lfs.calls]

\* --------------------------------------------------------------- inputs
NameList == <<"a", "b", "c", "d", "e">>

Column(name, data) == [name |-> name, data |-> data]

\* the designs of the scoring calls: every column is a numeric ramp, a column
\* of categories, a numeric constant, or an object column that starts with a frozenset
Cycle == <<Str(Low), Str(High), Str(Mid)>>

ScorerColumns ==
    {[r \in 1..NRows |-> Num(r)],
     [r \in 1..NRows |-> Cycle[((r - 1) % 3) + 1]],
     [r \in 1..NRows |-> Num(2)],
     [r \in 1..NRows |-> IF r = 1 THEN Obj ELSE Str(Low)]}

ScorerDesigns ==
    UNION {{[i \in 1..k |-> Column(NameList[i], cols[i])] :
               cols \in [1..k -> ScorerColumns]} :
           k \in 1..MaxCols}

\* an engine gives every column of x a score, the same column the same score
EnginesOn(x) == [{x[i] : i \in 1..Len(x)} -> 0..MaxScore]

NoEngine == [c \in {} |-> 0]

Calibrations ==
    {[ok |-> FALSE, alpha0 |-> 0], [ok |-> TRUE, alpha0 |-> 50],
     [ok |-> TRUE, alpha0 |-> 100]}

OutcomeMaps ==
    {[k \in {"Y", "W"} |-> [r \in 1..NRows |-> IF k = "Y" THEN r ELSE r % 2]]}

Classifiers ==
    {[kind |-> "str", name |-> "Y"], [kind |-> "str", name |-> "W"],
     [kind |-> "str", name |-> "Z"], [kind |-> "unicode", name |-> "Y"], [kind |-> "callable", name |-> "f"],
     [kind |-> "int", name |-> "42"]}

\* the designs of the encoder: one column of any values, at any place among
\* constant columns
ConstantColumns == {[r \in 1..NRows |-> v] : v \in {Num(2), Str(Mid), Obj}}

EncoderDesign(k, p, free, rest) ==
    [i \in 1..k |-> Column(NameList[i], IF i = p THEN free ELSE rest)]

NoArgs == [score_func |-> "", criterion |-> "", rf |-> RfDefaults,
           lasso |-> LassoDefaults, cal |-> [ok |-> FALSE, alpha0 |-> 0],
           engine |-> NoEngine]

NoRet == [call |-> "none", args |-> NoArgs, out |-> Raise("none", "", <<>>)]

TypeOK ==
    /\ ret.call \in {"none", "_prepare_experiments", "univariate", "rf", "lasso"}
    /\ Len(experiments) \in 1..MaxCols

\* ------------------------------------------------------------- scorers
Init ==
    /\ experiments \in ScorerDesigns
    /\ outcomes \in OutcomeMaps
    /\ classify \in Classifiers
    /\ ret = NoRet

\* an engine is drawn by the calls that get as far as the engine, and cal, what
\* LassoLarsCV does, by the continuous branch of the stability scorer
Reaches(exps, outs, cls) ==
    PrepareExperiments(exps).err = "ok" /\ PrepareOutcomes(outs, cls).err = "ok"

EnginesFor(exps, outs, cls) ==
    IF Reaches(exps, outs, cls)
    THEN EnginesOn(PrepareExperiments(exps).x) ELSE {NoEngine}

CalibrationsFor(exps, outs, cls) ==
    IF Reaches(exps, outs, cls) /\ ~PrepareOutcomes(outs, cls).categorical
    THEN Calibrations ELSE {NoArgs.cal}

Univariate ==
    /\ ret.call = "none"
    /\ \E score_func \in ScoreFuncNames,
          engine \in EnginesFor(experiments, outcomes, classify) :
          ret' = [call |-> "univariate",
                  args |-> [NoArgs EXCEPT !.score_func = score_func,
                                          !.engine = engine],
                  out |-> get_univariate_feature_scores(
                              experiments, outcomes, classify, score_func, engine)]
    /\ UNCHANGED <<experiments, outcomes, classify>>

Forest ==
    /\ ret.call = "none"
    /\ \E criterion \in Criteria, cfg \in RfConfigs,
          engine \in EnginesFor(experiments, outcomes, classify) :
          ret' = [call |-> "rf",
                  args |-> [NoArgs EXCEPT !.criterion = criterion, !.rf = cfg,
                                          !.engine = engine],
                  out |-> get_rf_feature_scores(
                              experiments, outcomes, classify, criterion, cfg, engine)]
    /\ UNCHANGED <<experiments, outcomes, classify>>

Lasso ==
    /\ ret.call = "none"
    /\ \E cfg \in LassoConfigs,
          cal \in CalibrationsFor(experiments, outcomes, classify),
          engine \in EnginesFor(experiments, outcomes, classify) :
          ret' = [call |-> "lasso",
                  args |-> [NoArgs EXCEPT !.lasso = cfg, !.cal = cal,
                                          !.engine = engine],
                  out |-> get_lasso_feature_scores(
                              experiments, outcomes, classify, cfg, cal, engine)]
    /\ UNCHANGED <<experiments, outcomes, classify>>

\* the caller takes the result; the next call starts from nothing
Return ==
    /\ ret.call # "none"
    /\ ret' = NoRet
    /\ UNCHANGED <<experiments, outcomes, classify>>

Next == Univariate \/ Forest \/ Lasso \/ Return

Spec == Init /\ [][Next]_vars

\* ------------------------------------------------------------- encoder
InitEncode ==
    /\ \E k \in 1..MaxCols, free \in [1..NRows -> Values], rest \in ConstantColumns :
          \E p \in 1..k : experiments = EncoderDesign(k, p, free, rest)
    /\ outcomes \in {[k \in {"Y"} |-> [r \in 1..NRows |-> 2]]}
    /\ classify = [kind |-> "str", name |-> "Y"]
    /\ ret = NoRet

Encode ==
    /\ ret.call = "none"
    /\ LET px == PrepareExperiments(experiments)
       IN ret' = [call |-> "_prepare_experiments", args |-> NoArgs,
                  out |-> [status |-> px.err, x |-> px.x]]
    /\ UNCHANGED <<experiments, outcomes, classify>>

NextEncode == Encode

SpecEncode == InitEncode /\ [][NextEncode]_vars

\* -------------------------------------------------------------- claims
Scorers == {"univariate", "rf", "lasso"}

Returned == ret.call \in Scorers /\ ret.out.status = "ok"

AsSet(sq) == {sq[i] : i \in 1..Len(sq)}

\* C1: a call that returns has resolved a name (str) that is a key of the
\* outcome mapping to y = outcomes[classify] in continuous mode, or a callable
\* to y = classify(outcomes) in categorical mode; nothing else is accepted and
\* the mode follows the kind alone.
C1_ModeFollowsKind ==
    Returned =>
        /\ classify.kind \in {"str", "callable"}
        /\ classify.kind = "str" =>
              /\ classify.name \in DOMAIN outcomes
              /\ ret.out.y = outcomes[classify.name]
              /\ ~ret.out.categorical
        /\ classify.kind = "callable" =>
              /\ ret.out.y = CallClassify(classify, outcomes)
              /\ ret.out.categorical

C1_Witness ==
    /\ Returned
    /\ classify.kind = "str"
    /\ ~ret.out.categorical
    /\ ret.out.y = outcomes["W"]

\* C2: when the design encodes, a name absent from the outcome mapping makes
\* the call fail with KeyError, a classify that is neither a name nor a
\* callable (42) with TypeError, every name-string (str or unicode) is looked
\* up and never takes the TypeError branch of _prepare_outcomes, and a failed
\* call returns no ranking.
C2_NamesAreLookedUp ==
    (ret.call \in Scorers /\ PrepareExperiments(experiments).err = "ok") =>
        /\ (classify.kind \in {"str", "unicode"} /\ classify.name \notin DOMAIN outcomes)
              => ret.out.status = "KeyError"
        /\ classify.kind = "int" => ret.out.status = "TypeError"
        /\ classify.kind \in {"str", "unicode"} =>
              ~(ret.out.status = "TypeError" /\ ret.out.raisedBy = "_prepare_outcomes")
        /\ ret.out.status # "ok" => ret.out.ranking = <<>>

\* C3: univariate scoring in continuous mode evaluates f_regression and
\* returns, whatever score_func names.
C3_ContinuousIsFRegression ==
    (ret.call = "univariate" /\ Reaches(experiments, outcomes, classify)
        /\ ~PrepareOutcomes(outcomes, classify).categorical) =>
        /\ ret.out.status = "ok"
        /\ ret.out.test = "f_regression"
        /\ ret.out.log = <<[op |-> "f_regression", arg |-> <<>>]>>

C3_Witness ==
    /\ ret.call = "univariate"
    /\ ret.out.status = "ok"
    /\ ~ret.out.categorical
    /\ ret.args.score_func = "chi2"
    /\ ret.out.test = "f_regression"

SwapFirst(exps) ==
    [i \in 1..Len(exps) |->
        IF Len(exps) < 2 THEN exps[i]
        ELSE IF i = 1 THEN exps[2] ELSE IF i = 2 THEN exps[1] ELSE exps[i]]

Rotate(exps) == [i \in 1..Len(exps) |-> exps[(i % Len(exps)) + 1]]

CallAgain(exps) ==
    CASE ret.call = "univariate" ->
            get_univariate_feature_scores(exps, outcomes, classify,
                                          ret.args.score_func, ret.args.engine)
      [] ret.call = "rf" ->
            get_rf_feature_scores(exps, outcomes, classify, ret.args.criterion,
                                  ret.args.rf, ret.args.engine)
      [] OTHER ->
            get_lasso_feature_scores(exps, outcomes, classify, ret.args.lasso,
                                     ret.args.cal, ret.args.engine)

\* C6: a returned ranking pairs every factor name with the engine's score of
\* that factor's own encoded column, and the same call on the design with its
\* columns permuted returns the same set of pairs.
C6_PermutationInvariant ==
    Returned =>
        /\ AsSet(ret.out.ranking) =
              {<<experiments[i].name,
                 ret.args.engine[EncodeColumn(experiments[i].data).col]>> :
                  i \in 1..Len(experiments)}
        /\ \A d \in {SwapFirst(experiments), Rotate(experiments)} :
              LET again == CallAgain(d)
              IN /\ again.status = "ok"
                 /\ AsSet(again.ranking) = AsSet(ret.out.ranking)

C6_Witness ==
    /\ Returned
    /\ Len(experiments) = 3
    /\ SwapFirst(experiments) # experiments
    /\ CallAgain(Rotate(experiments)).ranking # ret.out.ranking
    /\ ret.args.engine[EncodeColumn(experiments[1].data).col]
          # ret.args.engine[EncodeColumn(experiments[2].data).col]

\* C7: the forest is a regressor with criterion 'mse' in continuous mode and a
\* classifier with the caller's criterion in categorical mode, every other
\* keyword is forwarded, and the model returned is the fitted one whose
\* importances are the scores of the ranking.
C7_ForestResolved ==
    (ret.call = "rf" /\ ret.out.status = "ok") =>
        LET forest == ret.out.model
        IN /\ ~ret.out.categorical =>
                 /\ forest.learner = "RandomForestRegressor"
                 /\ forest.criterion = "mse"
           /\ ret.out.categorical =>
                 /\ forest.learner = "RandomForestClassifier"
                 /\ forest.criterion = ret.args.criterion
           /\ forest.cfg = ret.args.rf
           /\ forest.fitted
           /\ AsSet(ret.out.ranking) =
                 {<<experiments[i].name, forest.importances[i]>> :
                     i \in 1..Len(experiments)}

C7_Witness ==
    /\ ret.call = "rf"
    /\ ret.out.status = "ok"
    /\ ~ret.out.categorical
    /\ ret.args.criterion = "entropy"
    /\ ret.args.rf # RfDefaults
    /\ ret.out.model.criterion = "mse"

\* C8: in continuous mode the stability scorer fits LassoLarsCV(cv=6) first;
\* if that fails the call fails with no RandomizedLasso fit and no ranking,
\* otherwise RandomizedLasso is fitted next on 6 penalties equally spaced from
\* alpha0 down to alpha0 / 10.  In categorical mode the one fit is that of
\* RandomizedLogisticRegression, with the caller's keywords.
C8_CalibrateThenResample ==
    (ret.call = "lasso" /\ Reaches(experiments, outcomes, classify)) =>
        LET log == ret.out.log
        IN IF PrepareOutcomes(outcomes, classify).categorical
           THEN /\ ret.out.status = "ok"
                /\ Len(log) = 1
                /\ log[1].op = "RandomizedLogisticRegression.fit"
                /\ log[1].cfg = ret.args.lasso
           ELSE /\ Len(log) >= 1
                /\ log[1] = [op |-> "LassoLarsCV.fit", cv |-> 6]
                /\ ~ret.args.cal.ok =>
                      /\ ret.out.status = "ComputationError"
                      /\ Len(log) = 1
                      /\ ret.out.ranking = <<>>
                /\ ret.args.cal.ok =>
                      /\ ret.out.status = "ok"
                      /\ Len(log) = 2
                      /\ log[2].op = "RandomizedLasso.fit"
                      /\ log[2].cfg = ret.args.lasso
                      /\ Len(log[2].alpha) = 6
                      /\ log[2].alpha[1] = ret.args.cal.alpha0
                      /\ 10 * log[2].alpha[6] = ret.args.cal.alpha0
                      /\ \A i \in 1..4 :
                            log[2].alpha[i] - log[2].alpha[i + 1]
                               = log[2].alpha[i + 1] - log[2].alpha[i + 2]

C8_Witness ==
    /\ ret.call = "lasso"
    /\ ret.out.status = "ok"
    /\ ~ret.out.categorical
    /\ Len(ret.out.log) = 2
    /\ ret.out.log[2].alpha = <<100, 82, 64, 46, 28, 10>>

\* C10: two factors with equal scores stand in a returned ranking in the
\* order of their columns in the design, in both sort directions.
ColumnOf(name) == CHOOSE i \in 1..Len(experiments) : experiments[i].name = name

C10_TiesKeepColumnOrder ==
    Returned =>
        LET rk == ret.out.ranking
        IN \A i, j \in 1..Len(rk) :
              (i < j /\ rk[i][2] = rk[j][2]) => ColumnOf(rk[i][1]) < ColumnOf(rk[j][1])

C10_Witness ==
    /\ Returned
    /\ ret.call = "lasso"
    /\ Len(ret.out.ranking) = 3
    /\ ret.out.ranking[1][2] = ret.out.ranking[2][2]
    /\ ret.out.ranking[2][2] > ret.out.ranking[3][2]
    /\ ret.out.ranking[3][1] = "a"

\* --------------------------------------------------- claims, the encoder
Encoded == ret.call = "_prepare_experiments" /\ ret.out.status = "ok"

Distinct(data) == {data[r] : r \in 1..Len(data)}

\* C5: the matrix has one column per factor in the order of the design; a
\* column whose values all convert holds the numbers, any other column holds
\* for each row the rank of its value among the sorted distinct values of the
\* column, so the codes are 0 .. distinct_count - 1.
C5_EncodedMatrix ==
    Encoded =>
        LET x == ret.out.x
        IN /\ Len(x) = Len(experiments)
           /\ \A i \in 1..Len(experiments) :
                 LET data == experiments[i].data
                 IN IF \A r \in 1..Len(data) : Cast(data[r]).err = "ok"
                    THEN \A r \in 1..Len(data) :
                            x[i][r] = (IF data[r].t = "num" THEN data[r].n
                                       ELSE ParseDigits(data[r].s, 0))
                    ELSE /\ \A r \in 1..Len(data) :
                               x[i][r] = Cardinality({v \in Distinct(data) :
                                                         PyLt(v, data[r])})
                         /\ {x[i][r] : r \in 1..Len(data)}
                               = 0..(Cardinality(Distinct(data)) - 1)

C5_Witness ==
    /\ Encoded
    /\ Len(experiments) = 2
    /\ experiments[2].data = <<Str(Low), Str(High), Str(Mid)>>
    /\ ret.out.x[2] = <<1, 0, 2>>

\* C9: the encoder never fails: every column that does not convert falls back
\* to the codes and a matrix is returned.
C9_EncodeNeverFails ==
    ret.call = "_prepare_experiments" => ret.out.status = "ok"

====
